---- MODULE Spec2Model ----
(***************************************************************************)
(* Model of the queues-agent example: the POST /enqueue producer, the      *)
(* queue() consumer, the QueueAgent Durable Object reached through         *)
(* env.AGENT, and the RESULTS_KV result cache                              *)
(* (examples/queues-agent/src/index.ts).                                   *)
(***************************************************************************)
EXTENDS Integers, Sequences, FiniteSets, TLC

VARIABLES
    env,        \* the Worker's env: USE_MOCK_AI, AI_PROVIDER, credentials
    mode,       \* how QueueAgent's constructor ends under env:
                \* "mock" | "live" | "noCred"
    nextId,     \* number of messages handed to REQUEST_QUEUE so far
    pending,    \* messages the transport holds for (re)delivery
    inv,        \* one record per consumer invocation slot of queue()
    req,        \* per caller, its outstanding fetch to the agent
    instances,  \* live QueueAgent instances of the actor host
    puts,       \* RESULTS_KV.put calls in flight (ctx.waitUntil)
    cache,      \* RESULTS_KV: key -> value or NotFound
    acked,      \* ids of messages the transport acknowledged
    dlq,        \* messages in the dead-letter queue
    syncCount,  \* number of /agent/chat requests made so far
    faults,     \* number of transient failures that have happened so far
    now,        \* the clock of the KV store, in seconds
    expiry,     \* RESULTS_KV: key -> the time its entry expires at
    out,        \* the latest HTTP response of the app
    hist,       \* observations: what happened to each message
    state,      \* playground: the AgentContextState of the reducer
    tasks,      \* playground: the addAgent and refreshAgents calls in progress
    log,        \* playground: the actions the latest step dispatched
    ret,        \* playground: what the latest addAgent call returned
    kv,         \* kv-mcp: EXAMPLE_KV, key -> value or NotFound
    calls       \* kv-mcp: the is_prime calls in progress, per client

vars == <<env, mode, nextId, pending, inv, req, instances, puts, cache, acked, dlq,
          syncCount, faults, now, expiry, out, hist, state, tasks, log,
          ret, kv, calls>>

\* the variables of the playground and of kv-mcp, which the queues agent
\* never touches
others == <<env, state, tasks, log, ret, kv, calls>>

\* the variables of the queues agent's deployment
agentSide == <<env, mode, nextId, pending, inv, req, instances, puts, cache, acked,
               dlq, syncCount, faults, now, expiry, out, hist>>

----------------------------------------------------------------------------
(* Bounds of the model *)

MaxJobs == 2
MaxRetries == 1
MaxBatch == 2
MaxSync == 1
MaxFaults == 1
MaxTime == 3600
TickSeconds == 1800
MaxMessages == 3
MaxClock == 2
MaxAgents == 3
MaxListed == 2
MaxNum == 5

Consumers == {"c1", "c2"}
Gateways == {"g1"}
Callers == Consumers \cup Gateways

----------------------------------------------------------------------------
(* JavaScript values that travel in request and message bodies *)

Undef == [t |-> "undef"]
Null == [t |-> "null"]
Str(s) == [t |-> "str", v |-> s]
Arr(a) == [t |-> "arr", v |-> a]
Obj(sid, msgs) == [t |-> "obj", sessionId |-> sid, messages |-> msgs]

\* JavaScript falsiness: undefined, null and the empty string; arrays and
\* objects, even empty ones, are truthy.
Falsy(v) == v.t \in {"undef", "null"} \/ (v.t = "str" /\ v.v = "")

OrElse(v, d) == IF Falsy(v) THEN d ELSE v

UserMsg(text) == [role |-> "user", content |-> text]

CallerSessionIds == {"s1"}
\* crypto.randomUUID(): the n-th call yields an identifier no other call yields
randomUUID(n) == "u" \o ToString(n)
GeneratedIds == {randomUUID(n) : n \in 1..MaxJobs}
SessionIds == CallerSessionIds \cup GeneratedIds
UserLists == {<<UserMsg("ping")>>}

\* conversations: up to MaxMessages messages of either role
Roles == {"user", "assistant"}
Texts == {"ping", "pong", ""}
Messages == {[role |-> r, content |-> t] : r \in Roles, t \in Texts}
Conversations == UNION {[1..n -> Messages] : n \in 1..MaxMessages}
DefaultMessages == <<UserMsg("Hello!")>>

\* request bodies of POST /enqueue
ReqBodies ==
    {Obj(sid, msgs) : sid \in {Str(s) : s \in CallerSessionIds} \cup {Undef},
                      msgs \in {Arr(m) : m \in UserLists} \cup {Undef}}

\* request bodies at the edge of the input space: an empty message list,
\* an empty sessionId
EdgeBodies ==
    {Obj(Str("s1"), Arr(<<>>)), Obj(Str(""), Arr(<<UserMsg("ping")>>))}

\* request bodies with sessionId and messages each missing, null, empty or
\* given
AbsentValues == {Undef, Null, Str("")}
EnqueueBodies ==
    {Obj(sid, msgs) : sid \in AbsentValues \cup {Str("s1")},
                      msgs \in AbsentValues \cup {Arr(<<>>), Arr(<<UserMsg("ping")>>)}}

\* bodies another producer can put on the queue that the consumer rejects
MalformedBodies ==
    {Undef, Obj(Undef, Arr(<<UserMsg("ping")>>)), Obj(Str("s1"), Undef)}

----------------------------------------------------------------------------
(* Result cache keys and values *)

NotFound == "<not found>"

\* a cache with one entry for all sessions
SharedKey(sessionId) == "result:"

\* `result:${sessionId}`
KeyOf(sessionId) == "result:" \o sessionId
Keys == {KeyOf(s) : s \in SessionIds}

----------------------------------------------------------------------------
(* The agent: QueueAgent and the routing to it *)

\* env.AGENT.idFromName: the host's deterministic name -> id mapping
idFromName(name) == "do:" \o name

\* a consumer that names the actor after itself as well as the session
PerCallerId(c, sessionId) == idFromName(sessionId \o "@" \o c)

\* a consumer that names every actor the same
FixedId(c, sessionId) == idFromName("agent")

\* queue(): const id = env.AGENT.idFromName(sessionId)
ActorIdFor(c, sessionId) == idFromName(sessionId)

\* applyPermissionlessAgentSessionRouter: /agent/chat/:sessionId -> the DO
RouterIdFor(g, sessionId) == idFromName(sessionId)

\* an agent that answers for the first message of the list
FirstMessageReply(msgs) ==
    "0:\"Mock response: I received your message \"" \o msgs[1].content
        \o "\". This is a mock response for local testing without API keys.\""

\* an agent that calls the generation capability in every mode
AlwaysGenerates(k) == {req[k].job}

\* QueueAgent.processMessage, mock mode
MockReply(msgs) ==
    LET last == IF Len(msgs) > 0 THEN msgs[Len(msgs)] ELSE [role |-> "none"]
        userText == IF "content" \in DOMAIN last THEN last.content ELSE "Hello"
    IN  "0:\"Mock response: I received your message \"" \o userText
        \o "\". This is a mock response for local testing without API keys.\""

\* what the generation capability can stream back for a message list
GenTexts(msgs) ==
    {"gen:" \o (IF Len(msgs) > 0 THEN msgs[Len(msgs)].content ELSE "")}

ErrorBody == "Internal Server Error"

Reply(status, body) == [kind |-> "resp", status |-> status, body |-> body]
Thrown(e) == [kind |-> "throw", err |-> e]

NoReq == [st |-> "none"]
NoErr == "none"

----------------------------------------------------------------------------
(* HTTP responses of the Hono app *)

NoOut == [kind |-> "none"]

\* c.json(body, status)
Json(status, body) == [kind |-> "json", status |-> status, body |-> body]

\* a handler threw: Hono answers 500
ServerError == [kind |-> "error", status |-> 500]

----------------------------------------------------------------------------
(* The environment and QueueAgent's constructor *)

CredentialNames ==
    {"ANTHROPIC_API_KEY", "OPEN_AI_API_KEY", "GOOGLE_API_KEY", "DEEPSEEK_API_KEY",
     "GROK_API_KEY", "AI"}

Env(mock, provider, creds) ==
    [USE_MOCK_AI |-> mock, AI_PROVIDER |-> provider, creds |-> creds]

\* settings of the credentials: all set, none set, one missing, one empty,
\* only one set
CredentialSettings ==
    {[c \in CredentialNames |-> IF c = n THEN v ELSE base] :
        n \in CredentialNames, v \in {Undef, Str(""), Str("key")},
        base \in {Undef, Str("key")}}

ProviderSettings ==
    {Undef, Str("")} \cup
    {Str(p) : p \in {"anthropic", "openai", "OpenAI", "google", "gemini", "deepseek",
                      "xai", "grok", "workers-ai", "mistral"}}

MockSettings == {Str("true"), Str("false"), Undef}

Envs ==
    {Env(m, p, c) : m \in MockSettings, p \in ProviderSettings,
                    c \in CredentialSettings}

AllSet == [c \in CredentialNames |-> Str("key")]
NoneSet == [c \in CredentialNames |-> Undef]

\* one deployment per way the constructor can end
TypicalEnvs ==
    {Env(Str("true"), Undef, NoneSet), Env(Undef, Undef, AllSet),
     Env(Undef, Undef, NoneSet)}

\* String.prototype.toLowerCase, on the provider names of the model
toLowerCase(s) == IF s = "OpenAI" THEN "openai" ELSE s

\* (env.AI_PROVIDER || 'workers-ai').toLowerCase()
ProviderName(e) == toLowerCase(OrElse(e.AI_PROVIDER, Str("workers-ai")).v)

\* a constructor that asks nothing of a provider it does not know
NoneForUnknown(providerName) ==
    CASE providerName = "anthropic" -> "ANTHROPIC_API_KEY"
      [] providerName = "openai" -> "OPEN_AI_API_KEY"
      [] providerName \in {"google", "gemini"} -> "GOOGLE_API_KEY"
      [] providerName = "deepseek" -> "DEEPSEEK_API_KEY"
      [] providerName \in {"xai", "grok"} -> "GROK_API_KEY"
      [] providerName = "workers-ai" -> "AI"
      [] OTHER -> "none"

\* the switch over providerName: the credential or binding each case tests
RequiredCredential(providerName) ==
    CASE providerName = "anthropic" -> "ANTHROPIC_API_KEY"
      [] providerName = "openai" -> "OPEN_AI_API_KEY"
      [] providerName \in {"google", "gemini"} -> "GOOGLE_API_KEY"
      [] providerName = "deepseek" -> "DEEPSEEK_API_KEY"
      [] providerName \in {"xai", "grok"} -> "GROK_API_KEY"
      [] OTHER -> "AI"

\* if (!env.<credential>) throw new Error(...)
Missing(e, name) == name \in CredentialNames /\ Falsy(e.creds[name])

\* new QueueAgent(state, env)
ConstructorOutcome(e) ==
    IF e.USE_MOCK_AI = Str("true") THEN "mock"
    ELSE IF Missing(e, RequiredCredential(ProviderName(e))) THEN "throws"
    ELSE "live"

ModeOf(e) == IF ConstructorOutcome(e) = "throws" THEN "noCred" ELSE ConstructorOutcome(e)

----------------------------------------------------------------------------
(* The playground: agentReducer and the AgentProvider's operations *)

\* null, for selectedAgentId and error
NullValue == "<null>"

Agent(id, name, url, isOnline) ==
    [id |-> id, name |-> name, url |-> url, isOnline |-> isOnline]

\* getDefaultAgent()
defaultAgent == Agent("default", "Default Agent", "http://localhost:8787", FALSE)

\* getInitialState()
initialState ==
    [agents |-> <<defaultAgent>>, selectedAgentId |-> defaultAgent.id,
     isLoading |-> FALSE, error |-> NullValue]

Action(type, payload) == [type |-> type, payload |-> payload]

\* state.agents.filter((agent) => agent.id !== id)
WithoutId(agents, id) == SelectSeq(agents, LAMBDA a : a.id # id)

\* filteredAgents[0]?.id || null
FirstIdOrNull(agents) ==
    IF Len(agents) > 0 /\ agents[1].id # "" THEN agents[1].id ELSE NullValue

agentReducer(st, action) ==
    CASE action.type = "SET_AGENTS" ->
            [st EXCEPT !.agents = action.payload, !.isLoading = FALSE,
                       !.error = NullValue]
      [] action.type = "ADD_AGENT" ->
            [st EXCEPT !.agents = Append(st.agents, action.payload),
                       !.isLoading = FALSE, !.error = NullValue]
      [] action.type = "REMOVE_AGENT" ->
            [st EXCEPT !.agents = WithoutId(st.agents, action.payload),
                       !.selectedAgentId =
                           IF st.selectedAgentId = action.payload
                           THEN FirstIdOrNull(WithoutId(st.agents, action.payload))
                           ELSE st.selectedAgentId,
                       !.isLoading = FALSE, !.error = NullValue]
      [] action.type = "UPDATE_AGENT_HEALTH" ->
            [st EXCEPT !.agents =
                [n \in 1..Len(st.agents) |->
                    IF st.agents[n].id = action.payload.id
                    THEN [st.agents[n] EXCEPT !.isOnline = action.payload.isOnline]
                    ELSE st.agents[n]]]
      [] action.type = "SELECT_AGENT" ->
            [st EXCEPT !.selectedAgentId = action.payload, !.error = NullValue]
      [] action.type = "SET_LOADING" ->
            [st EXCEPT !.isLoading = action.payload]
      [] action.type = "SET_ERROR" ->
            [st EXCEPT !.error = action.payload, !.isLoading = FALSE]
      [] action.type = "RESET_AGENTS" -> initialState
      [] OTHER -> st

\* the state after dispatching the actions one after the other
RECURSIVE Reduce(_, _)
Reduce(st, actions) ==
    IF actions = <<>> THEN st
    ELSE Reduce(agentReducer(st, Head(actions)), Tail(actions))

NoReturn == [success |-> "none"]
Succeeded == [success |-> TRUE]
Failure(error) == [success |-> FALSE, error |-> error]

HttpUrls == {"http://localhost:8080", "https://agent.example"}
Urls == HttpUrls \cup {"", "ftp://localhost:8080", "localhost"}

\* new URL(url).protocol, "invalid" when the URL constructor throws
Protocol(url) ==
    CASE url = "http://localhost:8080" -> "http:"
      [] url = "https://agent.example" -> "https:"
      [] url = "ftp://localhost:8080" -> "ftp:"
      [] OTHER -> "invalid"

\* validateAgentUrl(url)
validateAgentUrl(url) ==
    IF url = "" THEN [isValid |-> FALSE, error |-> "URL is required"]
    ELSE IF Protocol(url) = "invalid"
         THEN [isValid |-> FALSE, error |-> "Invalid URL format"]
    ELSE IF Protocol(url) # "http:" /\ Protocol(url) # "https:"
         THEN [isValid |-> FALSE, error |-> "URL must use http or https protocol"]
    ELSE [isValid |-> TRUE]

\* saveCustomAgent(name, url) at Date.now() = t
saveCustomAgent(name, url, t) == Agent("custom-" \o ToString(t), name, url, FALSE)

AgentsOf(st) == {st.agents[n] : n \in 1..Len(st.agents)}

\* the values of Date.now() an addAgent call can see: any that no agent of
\* the list was made at
FreeTimes == {t \in 1..MaxClock : \A a \in AgentsOf(state) : a.id # "custom-" \o ToString(t)}

\* the actions one step dispatches take effect and are noted
Dispatch(actions) ==
    /\ state' = Reduce(state, actions)
    /\ log' = actions
    /\ UNCHANGED <<agentSide, kv, calls>>

\* addAgent(name, url), up to its await of the connection test; the model
\* follows lists of up to limit agents
AddAgent(limit) ==
    \E name \in {"Test Agent"}, url \in Urls :
        IF ~validateAgentUrl(url).isValid
        THEN /\ ret' = Failure(validateAgentUrl(url).error)
             /\ Dispatch(<<>>)
             /\ UNCHANGED tasks
        ELSE IF \E agent \in AgentsOf(state) : agent.url = url
        THEN /\ ret' = Failure("An agent with this URL already exists")
             /\ Dispatch(<<>>)
             /\ UNCHANGED tasks
        ELSE /\ Len(state.agents) + Cardinality(tasks) < limit
             /\ \E t \in FreeTimes :
                   tasks' = tasks \cup
                       {[kind |-> "add", agent |-> saveCustomAgent(name, url, t),
                         wasEmpty |-> Len(state.agents) = 0]}
             /\ Dispatch(<<Action("SET_LOADING", TRUE)>>)
             /\ UNCHANGED ret

AddAgentStart == AddAgent(MaxAgents)

AddAgentAlone == AddAgent(MaxListed)

\* addAgent after testAgentConnection answered
AddAgentFinish ==
    \E task \in tasks : \E isOnline \in BOOLEAN :
        /\ task.kind = "add"
        /\ tasks' = tasks \ {task}
        /\ LET agentWithHealth == [task.agent EXCEPT !.isOnline = isOnline]
           IN  Dispatch(<<Action("ADD_AGENT", agentWithHealth)>> \o
                        (IF task.wasEmpty \/ isOnline
                         THEN <<Action("SELECT_AGENT", agentWithHealth.id)>>
                         ELSE <<>>))
        /\ ret' = Succeeded

\* addAgent when the import of the connection test rejects
AddAgentFail ==
    \E task \in tasks :
        /\ task.kind = "add"
        /\ tasks' = tasks \ {task}
        /\ Dispatch(<<Action("SET_ERROR", "Failed to add agent")>>)
        /\ ret' = Failure("Failed to add agent")

KnownIds == {"default", "unknown"} \cup {"custom-" \o ToString(t) : t \in 1..MaxClock}

\* removeAgent(agentId)
RemoveAgent ==
    \E id \in KnownIds :
        /\ Dispatch(<<Action("REMOVE_AGENT", id)>>)
        /\ UNCHANGED <<tasks, ret>>

\* selectAgent(agentId)
SelectAgent ==
    \E id \in KnownIds :
        /\ Dispatch(<<Action("SELECT_AGENT", id)>>)
        /\ UNCHANGED <<tasks, ret>>

StoredLists ==
    {<<>>, <<defaultAgent>>,
     <<defaultAgent, Agent("custom-1", "Test Agent", "http://localhost:8080", TRUE)>>}

\* setAgents(agents), loadAgentsFromStorage()
SetAgents ==
    \E agents \in StoredLists :
        /\ Dispatch(<<Action("SET_AGENTS", agents)>>)
        /\ UNCHANGED <<tasks, ret>>

\* resetAgents()
ResetAgents ==
    /\ Dispatch(<<Action("RESET_AGENTS", NullValue)>>)
    /\ UNCHANGED <<tasks, ret>>

\* what testAgentConnection and detectAgentName can answer for one agent
Probes ==
    {[isOnline |-> FALSE, metadata |-> Undef, autoName |-> Undef],
     [isOnline |-> TRUE, metadata |-> Str("Queues Agent"), autoName |-> Undef],
     [isOnline |-> TRUE, metadata |-> Str("Default Agent"), autoName |-> Str("Local 8787")]}

\* "Default Agent", "Local Agent" or a name starting with "Localhost Agent"
GenericName(name) == name \in {"Default Agent", "Local Agent", "Localhost Agent 8080"}

\* the name refreshAgents settles on for an agent
DetectedName(agent, probe) ==
    IF ~probe.isOnline THEN agent.name
    ELSE IF /\ ~Falsy(probe.metadata)
            /\ probe.metadata.v # agent.name
            /\ probe.metadata.v # "Default Agent"
         THEN probe.metadata.v
    ELSE IF /\ GenericName(agent.name)
            /\ ~Falsy(probe.autoName)
            /\ probe.autoName.v # "Default Agent"
            /\ probe.autoName.v # agent.name
         THEN probe.autoName.v
    ELSE agent.name

\* healthChecks.forEach: updateAgentHealth, then UPDATE_AGENT_NAME if the
\* name changed
RECURSIVE RefreshActions(_, _)
RefreshActions(agents, probes) ==
    IF agents = <<>> THEN <<>>
    ELSE LET agent == Head(agents)
             probe == Head(probes)
             name == DetectedName(agent, probe)
         IN  <<Action("UPDATE_AGENT_HEALTH",
                      [id |-> agent.id, isOnline |-> probe.isOnline])>>
             \o (IF name # agent.name /\ name # ""
                 THEN <<Action("UPDATE_AGENT_NAME", [id |-> agent.id, name |-> name])>>
                 ELSE <<>>)
             \o RefreshActions(Tail(agents), Tail(probes))

\* refreshAgents(), up to its await of the health checks
RefreshStart ==
    /\ ~\E task \in tasks : task.kind = "refresh"
    /\ tasks' = tasks \cup {[kind |-> "refresh", agents |-> state.agents]}
    /\ Dispatch(<<Action("SET_LOADING", TRUE)>>)
    /\ UNCHANGED ret

\* refreshAgents() after the health checks answered
RefreshFinish ==
    \E task \in tasks :
        /\ task.kind = "refresh"
        /\ tasks' = tasks \ {task}
        /\ \E probes \in [1..Len(task.agents) -> Probes] :
              Dispatch(RefreshActions(task.agents, probes)
                       \o <<Action("SET_LOADING", FALSE)>>)
        /\ UNCHANGED ret

----------------------------------------------------------------------------
(* kv-mcp: the is_prime tool over EXAMPLE_KV *)

Nums == (0 - 1)..MaxNum
Clients == {"m1", "m2"}

\* num.toString()
PrimeKey(num) == ToString(num)
PrimeKeys == {PrimeKey(num) : num \in Nums}

\* numIsPrime.toString()
BoolString(b) == IF b THEN "true" ELSE "false"

\* the loop of isPrime: for (let i = 2; i * i <= num; i++)
RECURSIVE TrialDivision(_, _)
TrialDivision(num, i) ==
    IF i * i > num THEN TRUE
    ELSE IF num % i = 0 THEN FALSE
    ELSE TrialDivision(num, i + 1)

TrialOnly(num) == TrialDivision(num, 2)

isPrime(num) == IF num <= 1 THEN FALSE ELSE TrialDivision(num, 2)

NoCall == [pc |-> "none"]

\* what the tool returns
PrimeAnswer(num, numIsPrime) ==
    [text |-> "Number: " \o ToString(num) \o " is prime: " \o BoolString(numIsPrime),
     isPrime |-> numIsPrime]

\* a client calls is_prime(num): the tool reads EXAMPLE_KV and either
\* answers from the stored string or computes and goes on to store
PrimeGet(c) ==
    \E num \in Nums :
        /\ calls[c].pc \in {"none", "done"}
        /\ LET storedPrime == kv[PrimeKey(num)]
           IN  calls' = [calls EXCEPT ![c] =
                   IF storedPrime = NotFound \/ storedPrime = ""
                   THEN [pc |-> "put", num |-> num, storedPrime |-> storedPrime,
                         numIsPrime |-> isPrime(num)]
                   ELSE [pc |-> "done", num |-> num, storedPrime |-> storedPrime,
                         numIsPrime |-> (storedPrime = "true"),
                         result |-> PrimeAnswer(num, storedPrime = "true")]]
        /\ UNCHANGED <<agentSide, state, tasks, log, ret, kv>>

\* env.EXAMPLE_KV.put(num.toString(), numIsPrime.toString()), then the return
PrimePut(c) ==
    /\ calls[c].pc = "put"
    /\ kv' = [kv EXCEPT ![PrimeKey(calls[c].num)] = BoolString(calls[c].numIsPrime)]
    /\ calls' = [calls EXCEPT ![c] =
           [pc |-> "done", num |-> calls[c].num, storedPrime |-> calls[c].storedPrime,
            numIsPrime |-> calls[c].numIsPrime,
            result |-> PrimeAnswer(calls[c].num, calls[c].numIsPrime)]]
    /\ UNCHANGED <<agentSide, state, tasks, log, ret>>

----------------------------------------------------------------------------
(* Initial state *)

Idle == [pc |-> "idle", batch |-> <<>>, i |-> 0, called |-> {}, wrote |-> {},
         thrown |-> NoErr, raised |-> NoErr]

NoHist == [called |-> {}, finished |-> {}, generated |-> {}, succeeded |-> {},
           stored |-> {}, ownFailed |-> {},
           lastDone |-> [k \in Keys |-> NotFound],
           written |-> [k \in Keys |-> NotFound],
           wroteAt |-> [k \in Keys |-> 0]]

\* the start of a deployment whose env is one of envs
Start(envs) ==
    /\ env \in envs
    /\ mode = ModeOf(env)
    /\ nextId = 0
    /\ pending = {}
    /\ inv = [c \in Consumers |-> Idle]
    /\ req = [k \in Callers |-> NoReq]
    /\ instances = {}
    /\ puts = {}
    /\ cache = [k \in Keys |-> NotFound]
    /\ acked = {}
    /\ dlq = {}
    /\ syncCount = 0
    /\ faults = 0
    /\ now = 0
    /\ expiry = [k \in Keys |-> 0]
    /\ out = NoOut
    /\ hist = NoHist
    /\ state = initialState
    /\ tasks = {}
    /\ log = <<>>
    /\ ret = NoReturn
    /\ kv = [k \in PrimeKeys |-> NotFound]
    /\ calls = [c \in Clients |-> NoCall]

Init == Start(TypicalEnvs)

----------------------------------------------------------------------------
(* Producers *)

\* a transient failure of a collaborator (the generation capability, a
\* streamed body, the KV store) happens
Fault == faults < MaxFaults /\ faults' = faults + 1

\* REQUEST_QUEUE.send(body)
QueueSend(body) ==
    /\ nextId < MaxJobs
    /\ nextId' = nextId + 1
    /\ pending' = pending \cup {[id |-> nextId + 1, body |-> body, attempts |-> 0]}

\* an enqueue that sends what the caller sent
RawJob(body, uuid) == Obj(body.sessionId, body.messages)

\* the job POST /enqueue builds from a request body
EnqueuedJob(body, uuid) ==
    Obj(OrElse(body.sessionId, Str(uuid)), OrElse(body.messages, Arr(DefaultMessages)))

\* an enqueue that answers with the sessionId the caller sent
EchoResponse(body, job) == Json(200, [enqueued |-> TRUE, sessionId |-> body.sessionId])

\* return c.json({ enqueued: true, sessionId })
EnqueueResponse(body, job) == Json(200, [enqueued |-> TRUE, sessionId |-> job.sessionId])

\* POST /enqueue with the request body `body`
Post(body) ==
    LET job == EnqueuedJob(body, randomUUID(nextId + 1))
    IN  /\ QueueSend(job)
        /\ out' = EnqueueResponse(body, job)
        /\ UNCHANGED <<others, now, expiry, mode, inv, req, instances, puts, cache, acked, dlq,
                       syncCount, faults, hist>>

\* POST /enqueue
Enqueue == \E body \in ReqBodies : Post(body)

\* POST /enqueue, the edge inputs included
EnqueueAny == \E body \in ReqBodies \cup EdgeBodies : Post(body)

\* POST /enqueue over every combination of absent and given fields
EnqueueEvery == \E body \in EnqueueBodies : Post(body)

\* POST /enqueue when REQUEST_QUEUE.send rejects: the handler throws before
\* it answers, nothing is enqueued
EnqueueSendFail ==
    /\ Fault
    /\ out' = ServerError
    /\ UNCHANGED <<others, now, expiry, mode, nextId, pending, inv, req, instances, puts, cache,
                   acked, dlq, syncCount, hist>>

\* any other producer of the queue: the consumer takes MessageBatch<any>
SendRaw ==
    \E body \in MalformedBodies :
        /\ QueueSend(body)
        /\ UNCHANGED <<others, now, expiry, out, mode, inv, req, instances, puts, cache, acked, dlq,
                       syncCount, faults, hist>>

----------------------------------------------------------------------------
(* The queue transport: batch delivery to queue() *)

\* the sequences of n distinct members of S
Arrangements(S, n) ==
    {q \in [1..n -> S] : \A a, b \in 1..n : a # b => q[a] # q[b]}

Batches(S) == UNION {Arrangements(S, n) : n \in 1..MaxBatch}

\* the transport invokes queue(batch, env, ctx)
Deliver(c) ==
    /\ inv[c].pc = "idle"
    /\ \E batch \in Batches(pending) :
        /\ pending' = pending \ {batch[n] : n \in 1..Len(batch)}
        /\ inv' = [inv EXCEPT ![c] = [Idle EXCEPT !.pc = "loop", !.batch = batch,
                                                  !.i = 1]]
    /\ UNCHANGED <<others, now, expiry, out, mode, nextId, req, instances, puts, cache, acked, dlq,
                   syncCount, faults, hist>>

\* the n messages the transport has held longest, oldest first
Oldest(S, n) ==
    {q \in Arrangements(S, n) :
        /\ \A a, b \in 1..n : a < b => q[a].id < q[b].id
        /\ \A m \in S : (\A a \in 1..n : q[a] # m) => m.id > q[n].id}

\* the transport hands the messages over in enqueue order
DeliverInOrder(c) ==
    /\ inv[c].pc = "idle"
    /\ \E n \in 1..MaxBatch : \E batch \in Oldest(pending, n) :
        /\ pending' = pending \ {batch[a] : a \in 1..n}
        /\ inv' = [inv EXCEPT ![c] = [Idle EXCEPT !.pc = "loop", !.batch = batch,
                                                  !.i = 1]]
    /\ UNCHANGED <<others, now, expiry, out, mode, nextId, req, instances, puts, cache, acked,
                   dlq, syncCount, faults, hist>>

----------------------------------------------------------------------------
(* The consumer: queue() *)

\* const { sessionId, messages } = msg.body || {}
Fields(body) == IF Falsy(body) THEN Obj(Undef, Undef) ELSE body

\* if (!sessionId || !messages) ... skip
Valid(body) == ~(Falsy(Fields(body).sessionId) \/ Falsy(Fields(body).messages))

\* a consumer that walks its batch from the end
CurrentReversed(c) == inv[c].batch[Len(inv[c].batch) + 1 - inv[c].i]

\* for (const msg of batch.messages)
Current(c) == inv[c].batch[inv[c].i]

\* the for loop moves to the next message, or queue() returns
Advance(r) ==
    [r EXCEPT !.i = r.i + 1,
              !.pc = IF r.i + 1 > Len(r.batch) THEN "returned" ELSE "loop"]

\* a consumer that leaves the loop at a malformed message
StopOnInvalid(r) == [r EXCEPT !.i = Len(r.batch) + 1, !.pc = "returned"]

\* console.warn('Invalid queue message, skipping'); continue
OnInvalid(r) == Advance(r)

\* a consumer that raises a new error in place of the caught one
WrapError(e) == "Error"

\* catch (e) { console.error(...); throw e }
Rethrow(e) == e

\* a consumer that logs the error of a message and goes on with the batch
ContinueOnThrow(r, e) == Advance(r)

\* the throw leaves the for loop and queue()
OnThrow(r, e) == [r EXCEPT !.pc = "raised", !.thrown = e, !.raised = Rethrow(e)]

\* a consumer that awaits the cache write inside its try block
RaiseOnPutRejected(r) ==
    IF r.pc \in {"loop", "returned"} THEN OnThrow(r, "CacheWriteError") ELSE r

\* ctx.waitUntil(promise): a rejection of the promise does not reach queue()
OnPutRejected(r) == r

\* a consumer that sends the default message list to the agent
DefaultedMessages(body) == DefaultMessages

\* body: JSON.stringify({ id: crypto.randomUUID(), messages })
RequestMessages(body) == Fields(body).messages.v

ConsumerSkip(c) ==
    /\ inv[c].pc = "loop"
    /\ ~Valid(Current(c).body)
    /\ inv' = [inv EXCEPT ![c] = OnInvalid(inv[c])]
    /\ UNCHANGED <<others, now, expiry, out, mode, nextId, pending, req, instances, puts, cache, acked, dlq,
                   syncCount, faults, hist>>

\* env.AGENT.get(id).fetch(req)
ConsumerFetch(c) ==
    /\ inv[c].pc = "loop"
    /\ Valid(Current(c).body)
    /\ LET sessionId == Current(c).body.sessionId.v
           id == ActorIdFor(c, sessionId)
       IN  req' = [req EXCEPT ![c] =
                     [st |-> "sent", sessionId |-> sessionId, actorId |-> id,
                      messages |-> RequestMessages(Current(c).body),
                      job |-> Current(c).id]]
    /\ inv' = [inv EXCEPT ![c].pc = "await", ![c].called = @ \cup {inv[c].i}]
    /\ UNCHANGED <<others, now, expiry, out, mode, nextId, pending, instances, puts, cache, acked, dlq,
                   syncCount, faults, hist>>

ResultTtl == 60 * 60

\* a consumer that forgets the cache write
NoPut(c) == puts

\* const text = await resp.text(); ctx.waitUntil(env.RESULTS_KV.put(...))
IssuePut(c) ==
    puts \cup {[key |-> KeyOf(req[c].sessionId), value |-> req[c].resp.body,
                ttl |-> ResultTtl, job |-> req[c].job, sessionId |-> req[c].sessionId]}

NoteSucceeded(c) == IF req[c].resp.status = 200 THEN {req[c].job} ELSE {}

ConsumerStore(c) ==
    /\ inv[c].pc = "await"
    /\ req[c].st = "done"
    /\ req[c].resp.kind = "resp"
    /\ puts' = IssuePut(c)
    /\ inv' = [inv EXCEPT ![c] = Advance([inv[c] EXCEPT !.wrote = @ \cup {inv[c].i}])]
    /\ hist' = [hist EXCEPT
                    !.lastDone[KeyOf(req[c].sessionId)] = req[c].resp.body,
                    !.succeeded = @ \cup NoteSucceeded(c)]
    /\ req' = [req EXCEPT ![c] = NoReq]
    /\ UNCHANGED <<others, now, expiry, out, mode, nextId, pending, instances, cache, acked, dlq, syncCount, faults>>

\* the fetch to the agent rejected
ConsumerCatch(c) ==
    /\ inv[c].pc = "await"
    /\ req[c].st = "done"
    /\ req[c].resp.kind = "throw"
    /\ inv' = [inv EXCEPT ![c] = OnThrow(inv[c], req[c].resp.err)]
    /\ hist' = [hist EXCEPT !.ownFailed = @ \cup {req[c].job}]
    /\ req' = [req EXCEPT ![c] = NoReq]
    /\ UNCHANGED <<others, now, expiry, out, mode, nextId, pending, instances, puts, cache, acked, dlq,
                   syncCount, faults>>

\* resp.text() rejected: the streamed body broke off
ConsumerReadFail(c) ==
    /\ mode = "live"
    /\ Fault
    /\ inv[c].pc = "await"
    /\ req[c].st = "done"
    /\ req[c].resp.kind = "resp"
    /\ inv' = [inv EXCEPT ![c] = OnThrow(inv[c], "BodyReadError")]
    /\ hist' = [hist EXCEPT !.ownFailed = @ \cup {req[c].job}]
    /\ req' = [req EXCEPT ![c] = NoReq]
    /\ UNCHANGED <<others, now, expiry, out, mode, nextId, pending, instances, puts, cache, acked, dlq,
                   syncCount>>

----------------------------------------------------------------------------
(* The actor host and QueueAgent *)

Executing(k) == req[k].st = "exec"

\* the host runs one invocation of an actor identity at a time
HostFree(k) ==
    \A k2 \in Callers \ {k} : ~(Executing(k2) /\ req[k2].actorId = req[k].actorId)

Live(id) == \E a \in instances : a.id = id

\* new QueueAgent(state, env): throws when the provider's credential is absent
ConstructorThrows == mode = "noCred"

NoteCalled(k) == IF req[k].job > 0 THEN {req[k].job} ELSE {}

\* the host hands the request to the instance, constructing it on first use
HostStart(k) ==
    /\ req[k].st = "sent"
    /\ HostFree(k)
    /\ Live(req[k].actorId) \/ ~ConstructorThrows
    /\ instances' = IF Live(req[k].actorId) THEN instances
                    ELSE instances \cup {[id |-> req[k].actorId,
                                           sessionId |-> req[k].sessionId]}
    /\ req' = [req EXCEPT ![k].st = "exec"]
    /\ hist' = [hist EXCEPT !.called = @ \cup NoteCalled(k)]
    /\ UNCHANGED <<others, now, expiry, out, mode, nextId, pending, inv, puts, cache, acked, dlq, syncCount, faults>>

\* construction failed: the caller's fetch rejects
HostConstructFail(k) ==
    /\ req[k].st = "sent"
    /\ HostFree(k)
    /\ ~Live(req[k].actorId) /\ ConstructorThrows
    /\ req' = [req EXCEPT ![k] = [@ EXCEPT !.st = "done"] @@
                                 [resp |-> Thrown("ConfigurationError")]]
    /\ UNCHANGED <<others, now, expiry, out, mode, nextId, pending, inv, instances, puts, cache, acked, dlq,
                   syncCount, faults, hist>>

\* QueueAgent.processMessage returns its response
ProcessTexts(msgs) == IF mode = "mock" THEN {MockReply(msgs)} ELSE GenTexts(msgs)

\* the calls of streamTextWithMessages that one processMessage makes
GenerationCalls(k) == IF mode = "mock" THEN {} ELSE {req[k].job}

\* an agent that stores its reply itself
CacheWithReply(k) == [cache EXCEPT ![KeyOf(req[k].sessionId)] = "stored by the agent"]

\* processMessage has no access to RESULTS_KV
CacheAfterProcess(k) == cache

NoteFinished(k) ==
    [hist EXCEPT !.finished = @ \cup {req[k].job},
                 !.generated = @ \cup GenerationCalls(k)]

HostFinishOk(k) ==
    /\ Executing(k)
    /\ \E text \in ProcessTexts(req[k].messages) :
        req' = [req EXCEPT ![k] = [@ EXCEPT !.st = "done"] @@
                                  [resp |-> Reply(200, text)]]
    /\ cache' = CacheAfterProcess(k)
    /\ hist' = NoteFinished(k)
    /\ UNCHANGED <<others, now, expiry, out, mode, nextId, pending, inv, instances, puts, acked, dlq,
                   syncCount, faults>>

\* the generation streams no text part: toTextStreamResponse() is an empty
\* body with status 200
HostFinishEmpty(k) ==
    /\ mode = "live"
    /\ Executing(k)
    /\ req' = [req EXCEPT ![k] = [@ EXCEPT !.st = "done"] @@ [resp |-> Reply(200, "")]]
    /\ cache' = CacheAfterProcess(k)
    /\ hist' = NoteFinished(k)
    /\ UNCHANGED <<others, now, expiry, out, mode, nextId, pending, inv, instances, puts, acked, dlq,
                   syncCount, faults>>

\* streamTextWithMessages failed: an error response, or the fetch rejects
HostFinishFail(k) ==
    /\ mode = "live"
    /\ Fault
    /\ Executing(k)
    /\ \E r \in {Reply(500, ErrorBody), Thrown("CapabilityError")} :
        req' = [req EXCEPT ![k] = [@ EXCEPT !.st = "done"] @@ [resp |-> r]]
    /\ cache' = CacheAfterProcess(k)
    /\ hist' = NoteFinished(k)
    /\ UNCHANGED <<others, now, expiry, out, mode, nextId, pending, inv, instances, puts, acked, dlq,
                   syncCount>>

----------------------------------------------------------------------------
(* The transport's answer to how queue() ended *)

BatchSet(c) == {inv[c].batch[n] : n \in 1..Len(inv[c].batch)}

Failed(m) == [m EXCEPT !.attempts = @ + 1]

\* queue() returned: every message of the batch is acknowledged
Ack(c) ==
    /\ inv[c].pc = "returned"
    /\ acked' = acked \cup {m.id : m \in BatchSet(c)}
    /\ inv' = [inv EXCEPT ![c] = Idle]
    /\ UNCHANGED <<others, now, expiry, out, mode, nextId, pending, req, instances, puts, cache, dlq,
                   syncCount, faults, hist>>

\* queue() threw: every message of the batch is retried, or dead-lettered
\* once its retries are used up
Retry(c) ==
    /\ inv[c].pc = "raised"
    /\ pending' = pending \cup
                    {Failed(m) : m \in {x \in BatchSet(c) : x.attempts < MaxRetries}}
    /\ dlq' = dlq \cup
                {Failed(m) : m \in {x \in BatchSet(c) : x.attempts >= MaxRetries}}
    /\ inv' = [inv EXCEPT ![c] = Idle]
    /\ UNCHANGED <<others, now, expiry, out, mode, nextId, req, instances, puts, cache, acked, syncCount, faults, hist>>

----------------------------------------------------------------------------
(* RESULTS_KV *)

\* a put lands: the entry is overwritten and lives for its ttl from now
KvPutSettle ==
    \E p \in puts :
        /\ cache' = [cache EXCEPT ![p.key] = p.value]
        /\ expiry' = [expiry EXCEPT ![p.key] = now + p.ttl]
        /\ puts' = puts \ {p}
        /\ hist' = [hist EXCEPT !.stored = @ \cup {p.job},
                                !.written[p.key] = p.value,
                                !.wroteAt[p.key] = now]
        /\ UNCHANGED <<others, now, out, mode, nextId, pending, inv, req, instances, acked, dlq,
                       syncCount, faults>>

\* the consumer invocations that hold message id
Holders(id) == {c \in Consumers : \E m \in BatchSet(c) : m.id = id}

\* a put is rejected: the promise given to ctx.waitUntil rejects
KvPutFail ==
    \E p \in puts :
        /\ Fault
        /\ puts' = puts \ {p}
        /\ inv' = [c \in Consumers |->
                     IF c \in Holders(p.job) THEN OnPutRejected(inv[c]) ELSE inv[c]]
        /\ UNCHANGED <<others, now, expiry, out, mode, nextId, pending, req, instances, cache, acked, dlq,
                       syncCount, hist>>

\* time passes; the store drops the entries whose time has come
Tick ==
    /\ now < MaxTime
    /\ now' = now + TickSeconds
    /\ cache' = [k \in Keys |-> IF expiry[k] <= now' THEN NotFound ELSE cache[k]]
    /\ UNCHANGED <<others, expiry, out, mode, nextId, pending, inv, req, instances, puts, acked,
                   dlq, syncCount, faults, hist>>

\* RESULTS_KV.get(key): the value, or null for an absent key
KvGet(key) == IF cache[key] = NotFound THEN Null ELSE Str(cache[key])

\* a retrieval that answers with whatever the store returned
RawResult(sessionId) == [result |-> KvGet(KeyOf(sessionId))]

\* if (!value) return c.json({ result: null }, 200);
\* return c.json({ result: value }, 200)
ResultBody(sessionId) ==
    LET value == KvGet(KeyOf(sessionId))
    IN  IF Falsy(value) THEN [result |-> Null] ELSE [result |-> value]

\* GET /result/:sessionId
GetResult ==
    \E sessionId \in SessionIds :
        /\ out' = Json(200, ResultBody(sessionId))
        /\ UNCHANGED <<others, now, expiry, mode, nextId, pending, inv, req, instances, puts,
                       cache, acked, dlq, syncCount, faults, hist>>

----------------------------------------------------------------------------
(* The sync gateway: POST /agent/chat/:sessionId *)

\* a chat request whose message list is one of `lists`
SubmitChat(g, lists) ==
    /\ syncCount < MaxSync
    /\ req[g].st = "none"
    /\ \E sessionId \in CallerSessionIds, msgs \in lists :
        req' = [req EXCEPT ![g] =
                  [st |-> "sent", sessionId |-> sessionId,
                   actorId |-> RouterIdFor(g, sessionId), messages |-> msgs,
                   job |-> 0]]
    /\ syncCount' = syncCount + 1
    /\ UNCHANGED <<others, now, expiry, out, mode, nextId, pending, inv, instances, puts, cache, acked, dlq,
                   faults, hist>>

SyncSubmit(g) == SubmitChat(g, UserLists)

\* a chat request with any conversation of up to MaxMessages messages
SyncSubmitAny(g) == SubmitChat(g, Conversations)

\* the agent's response goes back to the caller
SyncRespond(g) ==
    /\ req[g].st = "done"
    /\ req' = [req EXCEPT ![g] = NoReq]
    /\ UNCHANGED <<others, now, expiry, out, mode, nextId, pending, inv, instances, puts, cache, acked, dlq,
                   syncCount, faults, hist>>

----------------------------------------------------------------------------
(* Specifications *)

Next ==
    \/ Enqueue
    \/ SendRaw
    \/ \E c \in Consumers : Deliver(c)
    \/ \E c \in Consumers : ConsumerSkip(c)
    \/ \E c \in Consumers : ConsumerFetch(c)
    \/ \E c \in Consumers : ConsumerStore(c)
    \/ \E c \in Consumers : ConsumerCatch(c)
    \/ \E c \in Consumers : ConsumerReadFail(c)
    \/ \E k \in Callers : HostStart(k)
    \/ \E k \in Callers : HostConstructFail(k)
    \/ \E k \in Callers : HostFinishOk(k)
    \/ \E k \in Callers : HostFinishFail(k)
    \/ \E c \in Consumers : Ack(c)
    \/ \E c \in Consumers : Retry(c)
    \/ KvPutSettle
    \/ KvPutFail
    \/ \E g \in Gateways : SyncSubmit(g)
    \/ \E g \in Gateways : SyncRespond(g)

Spec == Init /\ [][Next]_vars

\* The transport keeps delivering and settling, a started handler runs on,
\* the host answers and KV writes settle.
Progress ==
    /\ WF_vars(\E c \in Consumers : Deliver(c))
    /\ \A c \in Consumers :
        /\ WF_vars(ConsumerSkip(c))
        /\ WF_vars(ConsumerFetch(c))
        /\ WF_vars(ConsumerStore(c))
        /\ WF_vars(ConsumerCatch(c))
        /\ WF_vars(Ack(c))
        /\ WF_vars(Retry(c))
    /\ \A k \in Callers :
        /\ WF_vars(HostStart(k))
        /\ WF_vars(HostConstructFail(k))
        /\ WF_vars(HostFinishOk(k))
    /\ \A g \in Gateways : WF_vars(SyncRespond(g))
    /\ WF_vars(KvPutSettle)

FairSpec == Spec /\ Progress

\* Normal operation: the credentials are in place and no collaborator fails.
NormalNext ==
    \/ Enqueue
    \/ SendRaw
    \/ \E c \in Consumers : Deliver(c)
    \/ \E c \in Consumers : ConsumerSkip(c)
    \/ \E c \in Consumers : ConsumerFetch(c)
    \/ \E c \in Consumers : ConsumerStore(c)
    \/ \E k \in Callers : HostStart(k)
    \/ \E k \in Callers : HostFinishOk(k)
    \/ \E c \in Consumers : Ack(c)
    \/ KvPutSettle
    \/ \E g \in Gateways : SyncSubmit(g)
    \/ \E g \in Gateways : SyncRespond(g)

NormalInit == Init /\ mode # "noCred"

NormalSpec == NormalInit /\ [][NormalNext]_vars /\ Progress

\* The HTTP surface with one consumer invocation at a time: enqueue with its
\* edge inputs and send failures, the consumer's path to the cache, result
\* retrieval and the passing of time.
ApiNext ==
    \/ EnqueueAny
    \/ EnqueueSendFail
    \/ Deliver("c1")
    \/ ConsumerFetch("c1")
    \/ ConsumerStore("c1")
    \/ HostStart("c1")
    \/ HostFinishOk("c1")
    \/ HostFinishEmpty("c1")
    \/ Ack("c1")
    \/ KvPutSettle
    \/ KvPutFail
    \/ GetResult
    \/ Tick

ApiSpec == NormalInit /\ [][ApiNext]_vars

\* A single consumer instance that the transport feeds in enqueue order.
SoloNext ==
    \/ Enqueue
    \/ SendRaw
    \/ DeliverInOrder("c1")
    \/ ConsumerSkip("c1")
    \/ ConsumerFetch("c1")
    \/ ConsumerStore("c1")
    \/ ConsumerCatch("c1")
    \/ ConsumerReadFail("c1")
    \/ \E k \in {"c1"} \cup Gateways : HostStart(k)
    \/ \E k \in {"c1"} \cup Gateways : HostConstructFail(k)
    \/ \E k \in {"c1"} \cup Gateways : HostFinishOk(k)
    \/ \E k \in {"c1"} \cup Gateways : HostFinishFail(k)
    \/ Ack("c1")
    \/ Retry("c1")
    \/ KvPutSettle
    \/ KvPutFail
    \/ \E g \in Gateways : SyncSubmit(g)
    \/ \E g \in Gateways : SyncRespond(g)

SoloSpec == Init /\ [][SoloNext]_vars

\* Stub mode: the agent answers chat requests over the conversations.
StubInit == Init /\ mode = "mock"

StubNext ==
    \/ \E g \in Gateways : SyncSubmitAny(g)
    \/ \E k \in Gateways : HostStart(k)
    \/ \E k \in Gateways : HostFinishOk(k)
    \/ \E g \in Gateways : SyncRespond(g)

StubSpec == StubInit /\ [][StubNext]_vars

----------------------------------------------------------------------------
(* Properties *)

HasReq(k) == req[k].st # "none"

C2_OneActorPerSession ==
    /\ \A a, b \in instances :
        (a.sessionId = b.sessionId \/ a.id = b.id) => a = b
    /\ \A k \in Callers : HasReq(k) =>
        \A a \in instances :
            (req[k].sessionId = a.sessionId) <=> (req[k].actorId = a.id)
    /\ \A k1, k2 \in Callers : (HasReq(k1) /\ HasReq(k2)) =>
        ((req[k1].sessionId = req[k2].sessionId)
            <=> (req[k1].actorId = req[k2].actorId))

\* concurrent first access: two callers resolved the same session before any
\* instance of it exists, while another session's instance is live
C2_ConcurrentFirstAccess ==
    \E k1, k2 \in Callers :
        /\ k1 # k2
        /\ req[k1].st = "sent" /\ req[k2].st = "sent"
        /\ req[k1].sessionId = req[k2].sessionId
        /\ ~Live(req[k1].actorId)
        /\ instances # {}

InFlight == UNION {BatchSet(c) : c \in Consumers}

\* C5: a malformed job is never redelivered and never dead-lettered,
\* whatever else is in its batch.
C5_MalformedNeverRetried ==
    \A m \in pending \cup InFlight \cup dlq :
        ~Valid(m.body) => (m.attempts = 0 /\ m \notin dlq)

\* C6: every dead-lettered job passed validation and its own processing
\* failed; a valid job that succeeded or was never attempted is not
\* dead-lettered.
C6_OnlyOwnFailuresDeadLettered ==
    \A m \in dlq : Valid(m.body) /\ m.id \in hist.ownFailed

\* the cache write for message id is in flight or has landed, unless a
\* failure of the store lost it
WriteKept(id) ==
    \/ \E p \in puts : p.job = id
    \/ id \in hist.stored
    \/ faults > 0

\* C7: malformed-job isolation. Of the messages of a batch that the consumer
\* has passed, each malformed one had no actor call and no cache write, each
\* valid one had its actor call and its cache write; queue() returns only
\* past the whole batch, and raises only at a valid job whose processing
\* threw.
C7_MalformedIsolated ==
    \A c \in Consumers :
        /\ \A n \in 1..Len(inv[c].batch) :
            n < inv[c].i =>
                IF Valid(inv[c].batch[n].body)
                THEN /\ n \in inv[c].called /\ n \in inv[c].wrote
                     /\ inv[c].batch[n].id \in hist.called
                     /\ WriteKept(inv[c].batch[n].id)
                ELSE n \notin inv[c].called /\ n \notin inv[c].wrote
        /\ inv[c].pc = "returned" => inv[c].i = Len(inv[c].batch) + 1
        /\ inv[c].pc = "raised" =>
            (Valid(Current(c).body) /\ inv[c].thrown # NoErr)

\* queue() returned from a batch that holds a malformed job before a valid one
C7_MixedBatchReturned ==
    \E c \in Consumers :
        /\ inv[c].pc = "returned"
        /\ Len(inv[c].batch) = 2
        /\ ~Valid(inv[c].batch[1].body)
        /\ Valid(inv[c].batch[2].body)

\* C8: when the fetch to the actor or the reading of its response throws for
\* a validated job, queue() ends by raising that same error, and it issued no
\* cache write for that job.
C8_FailureReraised ==
    /\ [](\A c \in Consumers :
            inv[c].pc = "raised" =>
                /\ inv[c].thrown # NoErr
                /\ inv[c].raised = inv[c].thrown
                /\ inv[c].i \notin inv[c].wrote)
    /\ [][\A c \in Consumers :
            (/\ inv[c].pc = "await"
             /\ req[c].st = "done"
             /\ req[c].resp.kind = "throw"
             /\ inv'[c] # inv[c])
            => (/\ inv'[c].pc = "raised"
                /\ inv'[c].raised = req[c].resp.err
                /\ puts' = puts)]_vars

\* queue() raised at the second job of a batch after writing the first one's
\* result
C8_RaisedAfterWrite ==
    \E c \in Consumers :
        /\ inv[c].pc = "raised"
        /\ inv[c].i = 2
        /\ inv[c].wrote = {1}

\* C9: the body of an error response is never stored as a session's result.
C9_ErrorBodyNeverStored ==
    /\ \A p \in puts : p.value # ErrorBody
    /\ \A k \in Keys : cache[k] # ErrorBody

\* C10: once every cache write has settled (none was lost), the cached value
\* of a session is the result of the job of that session that completed last.
C10_LastCompletedWins ==
    (puts = {} /\ faults = 0) =>
        \A k \in Keys :
            hist.lastDone[k] # NotFound => cache[k] = hist.lastDone[k]

Sent(id) == id \in 1..nextId

ValidPending(id) == \E m \in pending : m.id = id /\ Valid(m.body)

DeadLettered(id) == \E m \in dlq : m.id = id

\* C3: at-least-once application. In normal operation every valid job on
\* the queue is eventually delivered, has the actor invoked for it, has its
\* result written to the cache, and is acknowledged.
C3_AppliedAtLeastOnce ==
    \A id \in 1..MaxJobs :
        ValidPending(id)
            ~> (id \in hist.called /\ id \in hist.stored /\ id \in acked)

\* a job made by POST /enqueue was applied: called, stored and acknowledged
C3_Applied ==
    \E id \in 1..MaxJobs :
        id \in hist.called /\ id \in hist.stored /\ id \in acked

\* where the transport holds message id
Places(id) ==
    {m \in pending \cup InFlight \cup dlq : m.id = id}

\* every message handed to the queue is in exactly one place: pending, in a
\* batch in flight, acknowledged or dead-lettered
Conserved ==
    \A id \in 1..MaxJobs :
        IF Sent(id)
        THEN Cardinality(Places(id)) + (IF id \in acked THEN 1 ELSE 0) = 1
        ELSE Places(id) = {} /\ id \notin acked

\* C4: a valid job whose processing failed at every delivery is never
\* acknowledged: it stays with the transport until it is dead-lettered.
C4_FailedJobNeverAcked ==
    \A id \in acked : id \in hist.called => id \in hist.succeeded

\* Retry then dead-letter, for failures that throw. No message is ever dropped; a message is
\* dead-lettered exactly when MaxRetries + 1 deliveries of it failed; and a
\* valid job whose processing fails at every delivery ends dead-lettered.
RetryThenDeadLetter ==
    /\ [](Conserved
          /\ (\A m \in dlq : m.attempts = MaxRetries + 1)
          /\ (\A m \in pending \cup InFlight : m.attempts <= MaxRetries))
    /\ \A id \in 1..MaxJobs :
        (mode = "noCred" /\ ValidPending(id)) ~> DeadLettered(id)

\* a valid job was delivered MaxRetries + 1 times and sits dead-lettered
DeadLetteredAfterRetries ==
    \E m \in dlq : Valid(m.body) /\ m.attempts = MaxRetries + 1
                   /\ m.id \in hist.ownFailed

----------------------------------------------------------------------------
(* Properties of result retrieval and the cache *)

AllIdle == \A c \in Consumers : inv[c].pc = "idle"

\* C11: once the consumer has finished processing a valid job of session s
\* (the invocation is over and acknowledged), result retrieval for s returns
\* that job's text: within the TTL there is no state in which it returns
\* null or an older value.
C11_ResultAfterProcessing ==
    \A s \in SessionIds :
        (hist.lastDone[KeyOf(s)] # NotFound /\ AllIdle /\ now < ResultTtl)
            => ResultBody(s) = [result |-> Str(hist.lastDone[KeyOf(s)])]

\* C12: cache read-after-write. After one or more completed writes for
\* session s and before expiry, result retrieval for s returns exactly the
\* most recently written value, whatever string the consumer stored, the
\* empty response text included.
C12_ReadAfterWrite ==
    \A s \in SessionIds :
        (hist.written[KeyOf(s)] # NotFound /\ cache[KeyOf(s)] # NotFound)
            => ResultBody(s) = [result |-> Str(hist.written[KeyOf(s)])]

Written(k) == hist.written[k] # NotFound

\* the entry of key k is within its time to live
WithinTtl(k) == Written(k) /\ now < hist.wroteAt[k] + 3600

\* C13: TTL and absence. A result the consumer wrote is retrievable until
\* 3600 seconds after its last write and not afterwards; retrieval for an
\* expired or never-written session answers result null with status 200,
\* never a stale value, never an error, and leaves the cache unchanged.
C13_TtlAndAbsence ==
    /\ [](\A s \in SessionIds :
            IF WithinTtl(KeyOf(s))
            THEN ResultBody(s) = [result |-> Str(hist.written[KeyOf(s)])]
            ELSE ResultBody(s) = [result |-> Null])
    /\ [][\A s \in SessionIds :
            (out' # out /\ out' = Json(200, ResultBody(s)))
                => (cache' = cache /\ expiry' = expiry /\ puts' = puts)]_vars
    /\ [](out.kind = "json" /\ "result" \in DOMAIN out.body => out.status = 200)

\* the absence half of C13 on its own: what retrieval answers for a session
\* whose entry expired or was never written
AbsentIsNull ==
    \A s \in SessionIds : ~WithinTtl(KeyOf(s)) => ResultBody(s) = [result |-> Null]

----------------------------------------------------------------------------
(* Properties of the consumer's cache write and of the producer *)

Redelivered(id) == \E m \in pending \cup InFlight \cup dlq : m.id = id /\ m.attempts > 0

\* generation for message id succeeded and its cache write was lost
PutLost(id) ==
    /\ id \in hist.succeeded
    /\ id \notin hist.stored
    /\ ~\E p \in puts : p.job = id

\* C14: cache writes are best-effort. When generation for a job succeeded and
\* its cache write fails, the failing write changes nothing for the consumer
\* invocation, the transport or the actor: queue() never raises a cache
\* error, and such a job is redelivered (and its actor called again) only
\* when a processing failure made queue() raise.
C14_CacheWriteBestEffort ==
    /\ [](\A c \in Consumers : inv[c].raised # "CacheWriteError")
    /\ [](\A id \in 1..MaxJobs :
            (PutLost(id) /\ Redelivered(id)) => hist.ownFailed # {})
    /\ [][(puts' \subseteq puts /\ puts' # puts /\ cache' = cache)
            => (/\ inv' = inv
                /\ pending' = pending
                /\ dlq' = dlq
                /\ acked' = acked
                /\ req' = req)]_vars

\* a job succeeded, its cache write was lost, and the job was acknowledged
\* on its first delivery
C14_LostWriteAcked ==
    \E id \in acked :
        /\ PutLost(id)
        /\ faults > 0
        /\ ~Redelivered(id)
        /\ hist.ownFailed = {}

\* the sessionIds in use anywhere in the system
UsedSessionIds ==
    {m.body.sessionId.v : m \in {x \in pending \cup InFlight \cup dlq : Valid(x.body)}}
        \cup {a.sessionId : a \in instances}
        \cup {s \in SessionIds : hist.lastDone[KeyOf(s)] # NotFound}

EnqueuedAnswer(r) == r.kind = "json" /\ "enqueued" \in DOMAIN r.body

\* C15: enqueue acknowledgment. Every POST /enqueue hands exactly one job to
\* the transport and answers {enqueued: true, sessionId} with that job's
\* sessionId, which is the caller's when the request carried one and a fresh
\* identifier otherwise; the answer is given only in a step that enqueued a
\* job, and a failed send enqueues nothing and does not answer enqueued.
C15_EnqueueAcknowledged ==
    /\ [][\A body \in ReqBodies \cup EdgeBodies :
            Post(body) =>
                \E m \in pending' :
                    /\ pending' \ pending = {m}
                    /\ pending \subseteq pending'
                    /\ m.attempts = 0
                    /\ out' = Json(200, [enqueued |-> TRUE,
                                         sessionId |-> m.body.sessionId])
                    /\ IF ~Falsy(body.sessionId)
                       THEN m.body.sessionId = body.sessionId
                       ELSE /\ m.body.sessionId.t = "str"
                            /\ m.body.sessionId.v # ""
                            /\ m.body.sessionId.v \notin UsedSessionIds]_vars
    /\ [][(out' # out /\ EnqueuedAnswer(out'))
            => (nextId' = nextId + 1 /\ Cardinality(pending' \ pending) = 1)]_vars
    /\ [][EnqueueSendFail
            => (pending' = pending /\ nextId' = nextId /\ ~EnqueuedAnswer(out'))]_vars

\* a request without sessionId was answered with a generated identifier after
\* an earlier send had failed, and its job is with the transport
C15_GeneratedIdAnswered ==
    \E m \in pending :
        /\ m.body.sessionId.v \in GeneratedIds
        /\ out = Json(200, [enqueued |-> TRUE, sessionId |-> m.body.sessionId])
        /\ faults > 0
        /\ puts = {} /\ hist.called = {}

\* a step of the actor host or of the sync path: a request to the agent
\* moves and no consumer invocation does
AgentOrSyncStep == req' # req /\ inv' = inv

\* C16: the actor's processing and the sync chat path leave the result cache
\* unchanged. No step of the agent or of the sync gateway changes the cache
\* or issues a write; every write in flight comes from the queue consumer for
\* a job whose actor call returned; and the cache only changes by such a
\* write landing.
C16_OnlyConsumerWrites ==
    /\ [][AgentOrSyncStep => (cache' = cache /\ puts' = puts /\ expiry' = expiry)]_vars
    /\ [](\A p \in puts : p.job \in 1..nextId /\ p.job \in hist.finished)
    /\ [][cache' # cache =>
            \E p \in puts :
                /\ p.job \in hist.finished
                /\ cache' = [cache EXCEPT ![p.key] = p.value]
                /\ puts' = puts \ {p}]_vars

\* a sync chat for session s1 completed while s1 has a cached result and no
\* consumer is at work
C16_SyncBesideCachedResult ==
    /\ req["g1"].st = "done"
    /\ req["g1"].resp.kind = "resp"
    /\ req["g1"].sessionId = "s1"
    /\ cache[KeyOf("s1")] # NotFound
    /\ AllIdle

\* the messages the transport holds anywhere
Held == pending \cup InFlight \cup dlq

\* C17: verbatim redelivery. A message keeps the body it was enqueued with
\* for as long as the transport holds it, through every redelivery, and at
\* every delivery attempt the consumer calls the actor of the job's sessionId
\* with the job's sessionId and the job's ordered message list.
C17_VerbatimRedelivery ==
    /\ [][\A m \in Held : \A n \in Held' :
            m.id = n.id => m.body = n.body]_vars
    /\ [](\A c \in Consumers :
            HasReq(c) =>
                /\ req[c].job = inv[c].batch[inv[c].i].id
                /\ Str(req[c].sessionId) = inv[c].batch[inv[c].i].body.sessionId
                /\ Arr(req[c].messages) = inv[c].batch[inv[c].i].body.messages
                /\ req[c].actorId = idFromName(req[c].sessionId))

\* the actor is being called for a job on its redelivery
C17_RedeliveredCall ==
    \E c \in Consumers :
        /\ Executing(c)
        /\ inv[c].batch[inv[c].i].attempts > 0
        /\ req[c].messages = <<UserMsg("ping")>>

----------------------------------------------------------------------------
(* Properties of ordering, of the actor's input and of stub mode *)

\* C18: with a single consumer instance that is fed in enqueue order, the
\* actor executes a session's jobs in enqueue order: while the call for a
\* job runs, every call started for an earlier job has completed, and every
\* earlier job of the same session that the transport still holds has had a
\* call complete.
C18_SessionOrderKept ==
    \A c \in Consumers :
        Executing(c) =>
            /\ \A id \in hist.called : id < req[c].job => id \in hist.finished
            /\ \A m \in Held :
                (/\ m.id < req[c].job
                 /\ Valid(m.body)
                 /\ m.body.sessionId.v = req[c].sessionId)
                    => m.id \in hist.finished

\* the call for the second job of a session runs while the first job of that
\* session, delivered in the same batch, is still held with its call complete
C18_SecondAfterFirst ==
    \E c \in Consumers :
        /\ Executing(c)
        /\ req[c].job = 2
        /\ inv[c].i = 2
        /\ Valid(inv[c].batch[1].body)
        /\ inv[c].batch[1].body.sessionId.v = req[c].sessionId
        /\ 1 \in hist.finished

\* C19: the actor's process operation is only ever invoked with a message
\* list of at least one entry: no job that POST /enqueue accepted and the
\* consumer's validation passed reaches the actor with an empty list.
C19_NonEmptyMessages ==
    \A c \in Consumers :
        (HasReq(c) /\ req[c].st # "sent") => Len(req[c].messages) > 0

\* the fixed template of stub mode around the user's text
StubPrefix == "0:\"Mock response: I received your message \""
StubSuffix == "\". This is a mock response for local testing without API keys.\""

EndsWithUser(msgs) == Len(msgs) > 0 /\ msgs[Len(msgs)].role = "user"

\* C20: stub mode. With the stub flag on, for every message list whose final
\* entry is a user message with text t, process answers with the fixed
\* template around t, the same body for the same list, and makes no call to
\* the generation capability.
C20_StubReply ==
    /\ mode = "mock" => hist.generated = {}
    /\ \A k \in Callers :
        (mode = "mock" /\ req[k].st = "done" /\ EndsWithUser(req[k].messages))
            => req[k].resp =
                 Reply(200, StubPrefix \o req[k].messages[Len(req[k].messages)].content
                              \o StubSuffix)

\* a chat of three messages ending in the user's "ping", after other texts,
\* was answered in stub mode
C20_AnsweredConversation ==
    /\ mode = "mock"
    /\ req["g1"].st = "done"
    /\ Len(req["g1"].messages) = 3
    /\ req["g1"].messages[3] = UserMsg("ping")
    /\ req["g1"].messages[2] = [role |-> "assistant", content |-> "pong"]
    /\ req["g1"].messages[1] = UserMsg("")

UserIndexes(msgs) == {n \in 1..Len(msgs) : msgs[n].role = "user"}

\* the content of the last entry of msgs whose role is user
LastUserText(msgs) ==
    msgs[CHOOSE n \in UserIndexes(msgs) : \A a \in UserIndexes(msgs) : a <= n].content

\* C21: in stub mode the response is derived from the last user message: for
\* every message list that holds a user message, lists whose final entry has
\* another role included, the text embedded in the response is the content
\* of the last entry whose role is user.
C21_StubUsesLastUserMessage ==
    \A k \in Callers :
        (/\ mode = "mock"
         /\ req[k].st = "done"
         /\ UserIndexes(req[k].messages) # {})
            => req[k].resp =
                 Reply(200, StubPrefix \o LastUserText(req[k].messages) \o StubSuffix)

----------------------------------------------------------------------------
(* Properties of QueueAgent's construction *)

\* Deployments under every setting of USE_MOCK_AI, AI_PROVIDER and the
\* credentials, with one consumer and no failing collaborator.
ConfigInit == Start(Envs)

ConfigNext ==
    \/ Enqueue
    \/ DeliverInOrder("c1")
    \/ ConsumerFetch("c1")
    \/ HostStart("c1")
    \/ HostConstructFail("c1")
    \/ HostFinishOk("c1")
    \/ ConsumerStore("c1")
    \/ ConsumerCatch("c1")
    \/ Ack("c1")
    \/ Retry("c1")

ConfigSpec == ConfigInit /\ [][ConfigNext]_vars

\* the providers the agent recognises and what each needs
ProviderTable ==
    {<<"anthropic", "ANTHROPIC_API_KEY">>, <<"openai", "OPEN_AI_API_KEY">>,
     <<"google", "GOOGLE_API_KEY">>, <<"gemini", "GOOGLE_API_KEY">>,
     <<"deepseek", "DEEPSEEK_API_KEY">>, <<"xai", "GROK_API_KEY">>,
     <<"grok", "GROK_API_KEY">>, <<"workers-ai", "AI">>}

StubOn == env.USE_MOCK_AI = Str("true")

\* the provider the deployment selects; an unset or unrecognised name is the
\* default provider
Selected ==
    LET name == IF Falsy(env.AI_PROVIDER) THEN "workers-ai"
                ELSE toLowerCase(env.AI_PROVIDER.v)
    IN  IF \E p \in ProviderTable : p[1] = name THEN name ELSE "workers-ai"

Needed == (CHOOSE p \in ProviderTable : p[1] = Selected)[2]

NeededAbsent == env.creds[Needed] \in {Undef, Null, Str("")}

ConfigurationFailure(k) ==
    req[k].st = "done" /\ req[k].resp = Thrown("ConfigurationError")

\* C22: construction fails exactly when stub mode is off and what the selected
\* provider needs is absent (an unrecognised provider counts as the default
\* one), never in stub mode; the host answers a failed construction with the
\* failure instead of trying again, the consumer then raises, and the
\* transport takes the batch back for redelivery.
C22_ConstructionFailure ==
    /\ [](/\ ConstructorThrows <=> (~StubOn /\ NeededAbsent)
          /\ ConstructorThrows => instances = {}
          /\ \A k \in Callers : ConfigurationFailure(k) => ConstructorThrows)
    /\ [][\A c \in Consumers :
            /\ (ConstructorThrows /\ req[c].st = "sent" /\ req'[c] # req[c])
                  => ConfigurationFailure(c)'
            /\ (ConfigurationFailure(c) /\ inv'[c] # inv[c])
                  => inv'[c].pc = "raised" /\ inv'[c].raised = "ConfigurationError"
            /\ (inv[c].pc = "raised" /\ inv'[c] # inv[c])
                  => \A m \in BatchSet(c) :
                        /\ m.id \notin acked'
                        /\ IF m.attempts < MaxRetries
                           THEN Failed(m) \in pending'
                           ELSE Failed(m) \in dlq']_vars

\* a deployment naming a provider the agent does not know, without the AI
\* binding: a job failed at construction and waits for its redelivery
C22_UnknownProviderRedelivered ==
    /\ env.AI_PROVIDER = Str("mistral")
    /\ ~StubOn
    /\ Falsy(env.creds["AI"])
    /\ \E m \in pending : m.attempts > 0 /\ m.id \in hist.ownFailed

----------------------------------------------------------------------------
(* Properties of the consumer's termination *)

\* The consumer, the transport and the host's dispatch keep taking their
\* steps; nothing obliges the agent to answer a request it was handed.
ConsumerProgress ==
    /\ WF_vars(DeliverInOrder("c1"))
    /\ WF_vars(ConsumerFetch("c1"))
    /\ WF_vars(ConsumerStore("c1"))
    /\ WF_vars(ConsumerCatch("c1"))
    /\ WF_vars(Ack("c1"))
    /\ WF_vars(Retry("c1"))
    /\ WF_vars(HostStart("c1"))
    /\ WF_vars(HostConstructFail("c1"))

HangSpec == Init /\ [][ConfigNext]_vars /\ ConsumerProgress

\* C23: every process invocation the consumer makes is bounded: an
\* invocation waiting for the agent eventually stops waiting, with the answer
\* or as a failure, whether or not the agent answers.
C23_InvocationBounded ==
    \A c \in Consumers : (inv[c].pc = "await") ~> (inv[c].pc # "await")

----------------------------------------------------------------------------
(* Properties of the playground's agent list *)

\* The playground under addAgent calls alone.
AddNext ==
    \/ AddAgentStart
    \/ AddAgentFinish
    \/ AddAgentFail

AddSpec == StubInit /\ [][AddNext]_vars

\* The playground under the operations that change the list or the selection.
PlaygroundNext ==
    \/ AddAgentAlone
    \/ AddAgentFinish
    \/ AddAgentFail
    \/ RemoveAgent
    \/ SelectAgent
    \/ SetAgents
    \/ ResetAgents

PlaygroundSpec == StubInit /\ [][PlaygroundNext]_vars

\* The playground refreshing the lists it loads.
RefreshNext ==
    \/ RefreshStart
    \/ RefreshFinish
    \/ SetAgents
    \/ RemoveAgent
    \/ ResetAgents

RefreshSpec == StubInit /\ [][RefreshNext]_vars

\* C24: after any sequence of addAgent calls, overlapping ones included, no
\* two agents of the list have the same URL.
C24_NoDuplicateUrls ==
    \A i, j \in 1..Len(state.agents) :
        i # j => state.agents[i].url # state.agents[j].url

----------------------------------------------------------------------------
(* Properties of the is_prime tool *)

PrimeNext ==
    \/ \E c \in Clients : PrimeGet(c)
    \/ \E c \in Clients : PrimePut(c)

PrimeSpec == StubInit /\ [][PrimeNext]_vars

\* n is a prime number
Prime(n) == n > 1 /\ \A d \in 2..(n - 1) : n % d # 0

Answered(c) == calls[c].pc = "done"

\* C25: every answer of is_prime for n is the primality of n; once a call for
\* n has answered, the entry under key n holds that answer as 'true' or
\* 'false'; a call that finds the entry answers from it and leaves it as it
\* is; and a call changes no entry but that of its own number.
C25_PrimeCache ==
    /\ [](/\ \A n \in Nums : kv[PrimeKey(n)] \in {NotFound, BoolString(Prime(n))}
          /\ \A c \in Clients :
                Answered(c) =>
                    /\ calls[c].result.isPrime = Prime(calls[c].num)
                    /\ calls[c].result.text =
                           "Number: " \o ToString(calls[c].num) \o " is prime: "
                           \o BoolString(Prime(calls[c].num))
                    /\ kv[PrimeKey(calls[c].num)] = BoolString(Prime(calls[c].num))
                    /\ calls[c].storedPrime # NotFound
                          => calls[c].result.isPrime = (calls[c].storedPrime = "true"))
    /\ [][/\ \A k \in PrimeKeys : kv[k] # NotFound => kv'[k] = kv[k]
          /\ \A k \in PrimeKeys :
                kv'[k] # kv[k] =>
                    \E c \in Clients : /\ calls[c].pc = "put"
                                       /\ Answered(c)'
                                       /\ k = PrimeKey(calls[c].num)
          /\ \A c \in Clients :
                (Answered(c)' /\ calls'[c] # calls[c] /\ calls'[c].storedPrime # NotFound)
                    => kv' = kv]_vars

\* a later call for 5 answered from the entry an earlier call stored, beside
\* the stored entry of the composite 4 and the untouched entry of 3
C25_AnsweredFromStore ==
    /\ Answered("m1") /\ calls["m1"].num = 5 /\ calls["m1"].storedPrime = "true"
    /\ calls["m1"].result.isPrime
    /\ kv[PrimeKey(4)] = "false"
    /\ kv[PrimeKey(3)] = NotFound

----------------------------------------------------------------------------
(* Properties of a failing batch *)

Threw(c) == inv[c].pc = "await" /\ req[c].st = "done" /\ req[c].resp.kind = "throw"

\* the messages of c's batch the invocation completed
Completed(c) == {inv[c].batch[n] : n \in inv[c].wrote}

\* C26: when the processing of the k-th job of a batch throws, the invocation
\* stops there and attempts no later job of the batch; the whole batch, the
\* jobs completed before k included, goes back for redelivery (or to the
\* dead-letter queue once its retries are used up), none of it acknowledged;
\* and a delivered job is attempted and its result written whatever was done
\* for it before.
C26_BatchBlastRadius ==
    /\ [](\A c \in Consumers :
            /\ inv[c].pc = "raised" =>
                  /\ req[c] = NoReq
                  /\ \A n \in 1..Len(inv[c].batch) :
                        n > inv[c].i => n \notin inv[c].called \cup inv[c].wrote
            /\ (inv[c].pc = "loop" /\ Valid(Current(c).body))
                  => ENABLED ConsumerFetch(c))
    /\ [][\A c \in Consumers :
            /\ (Threw(c) /\ inv'[c] # inv[c])
                  => inv'[c].pc = "raised" /\ inv'[c].i = inv[c].i
            /\ (inv[c].pc = "raised" /\ inv'[c] # inv[c])
                  => /\ inv'[c] = Idle
                     /\ \A m \in BatchSet(c) :
                           /\ m.id \notin acked'
                           /\ IF m.attempts < MaxRetries
                              THEN Failed(m) \in pending'
                              ELSE Failed(m) \in dlq'
            /\ (inv[c].pc = "await" /\ inv'[c].wrote # inv[c].wrote)
                  => [key |-> KeyOf(req[c].sessionId), value |-> req[c].resp.body,
                      ttl |-> ResultTtl, job |-> req[c].job,
                      sessionId |-> req[c].sessionId] \in puts']_vars

\* a job that never failed itself was completed and stored, came back with
\* its failed batch, was processed by the agent again and is written again
C26_CompletedJobRepeated ==
    \E c \in Consumers : \E m \in Completed(c) :
        /\ m.attempts > 0
        /\ m.id \notin hist.ownFailed
        /\ m.id \in hist.stored
        /\ \E p \in puts : p.job = m.id

----------------------------------------------------------------------------
(* Properties of the cache across sessions *)

\* the entry of session s: the key `result:<s>` of RESULTS_KV
EntryOf(s) == "result:" \o s

\* the puts that land in this step
Landing == puts \ puts'

\* C27: the entries of distinct sessions are distinct; an entry changes only
\* by the landing of a put made for a job of its own session (or by its
\* expiry as time passes); what retrieval for a session returns changes only
\* with such a write or the passing of time, so no job of another session
\* changes it; and a retrieval answers from its own session's entry.
C27_SessionIsolation ==
    /\ []((\A s, t \in SessionIds : s # t => KeyOf(s) # KeyOf(t))
          /\ \A s \in SessionIds :
                ResultBody(s) = IF cache[EntryOf(s)] \in {NotFound, ""}
                                THEN [result |-> Null]
                                ELSE [result |-> Str(cache[EntryOf(s)])])
    /\ [][/\ \A k \in Keys :
                (cache'[k] # cache[k] /\ now' = now)
                    => \E p \in Landing : k = EntryOf(p.sessionId)
          /\ \A s \in SessionIds :
                (ResultBody(s)' # ResultBody(s) /\ now' = now)
                    => \E p \in Landing : p.sessionId = s
          /\ \A p \in puts' \ puts :
                \E c \in Consumers :
                    /\ inv[c].pc = "await"
                    /\ p.job = Current(c).id
                    /\ p.sessionId = Current(c).body.sessionId.v
                    /\ p.key = EntryOf(p.sessionId)]_vars

\* the results of two sessions sit side by side and the latest retrieval, for
\* the first of them, answered with its own entry
C27_TwoSessionsCached ==
    /\ cache[KeyOf("s1")] # NotFound
    /\ cache[KeyOf("u2")] # NotFound
    /\ hist.stored = {1, 2}
    /\ out = Json(200, [result |-> Str(cache[KeyOf("s1")])])

----------------------------------------------------------------------------
(* Properties of the jobs the enqueue endpoint makes *)

\* The endpoint as the only producer, under every combination of absent and
\* given fields, and the consumer's path for the jobs it makes.
EnqueueNext ==
    \/ EnqueueEvery
    \/ Deliver("c1")
    \/ ConsumerFetch("c1")
    \/ HostStart("c1")
    \/ HostFinishOk("c1")
    \/ ConsumerStore("c1")
    \/ Ack("c1")
    \/ KvPutSettle

EnqueueSpec == NormalInit /\ [][EnqueueNext]_vars

\* the messages on the queue or in a consumer's hands
Queued == pending \cup InFlight

Present(v) == v.t \notin {"undef", "null"} /\ v # Str("")

\* C28: every job the enqueue endpoint makes has a present sessionId and a
\* present messages value, whatever the request body left out, so the
\* consumer never skips a job that came through the endpoint.
C28_EnqueuedJobsValid ==
    /\ \A m \in Queued :
          /\ m.body.t = "obj"
          /\ Present(m.body.sessionId)
          /\ Present(m.body.messages)
          /\ Valid(m.body)
    /\ \A c \in Consumers : ~ENABLED ConsumerSkip(c)

\* a request that left out both fields became the job of a generated session
\* with the default message, which the consumer passed to the agent, while a
\* job with an empty message list waits on the queue
C28_DefaultedJobProcessed ==
    /\ \E c \in Consumers : \E m \in BatchSet(c) :
          /\ m.body = Obj(Str(randomUUID(1)), Arr(DefaultMessages))
          /\ m.id \in hist.called
    /\ \E m \in pending : m.body.messages = Arr(<<>>)

\* C29: after any sequence of reducer actions selectedAgentId is the id of an
\* agent of the list, or null.
C29_SelectionInList ==
    \/ state.selectedAgentId = NullValue
    \/ \E a \in AgentsOf(state) : a.id = state.selectedAgentId

\* C30: when refreshAgents dispatches UPDATE_AGENT_NAME for an agent, the
\* state after the dispatch holds that agent under the detected name.
C30_DetectedNameApplied ==
    \A n \in 1..Len(log) :
        log[n].type = "UPDATE_AGENT_NAME" =>
            \A a \in AgentsOf(state) :
                a.id = log[n].payload.id => a.name = log[n].payload.name

====
